---------------------------- MODULE Spec2Model ----------------------------
(***************************************************************************)
(* Model of the StaticMixing engine (src/calculations.ts) and of the       *)
(* form state that feeds it (src/App.tsx).                                 *)
(*                                                                         *)
(* JavaScript numbers are IEEE-754 binary64 values.  They are modelled as  *)
(* floating-point values of reduced precision: a finite number is          *)
(* m * 10^e with a mantissa m of exactly Prec decimal digits (or m = 0),   *)
(* every arithmetic result is rounded to the nearest such number (ties to  *)
(* even), and NaN, +Infinity and -Infinity follow the ECMAScript rules.    *)
(* The sign of zero is not modelled (a zero divisor yields the infinity    *)
(* whose sign is the dividend's).                                          *)
(***************************************************************************)
EXTENDS Integers, Sequences, FiniteSets, TLC

\* Number of significant decimal digits kept by the modelled numbers.
Prec == 3

RECURSIVE Pow10(_)
Pow10(n) == IF n <= 0 THEN 1 ELSE 10 * Pow10(n - 1)

RECURSIVE Digits(_)
Digits(n) == IF n < 10 THEN 1 ELSE 1 + Digits(n \div 10)

Abs(i) == IF i < 0 THEN -i ELSE i
Sign(i) == IF i < 0 THEN -1 ELSE 1

NaN == [k |-> "nan", m |-> 0, e |-> 0]
PInf == [k |-> "inf", m |-> 1, e |-> 0]
NInf == [k |-> "inf", m |-> -1, e |-> 0]
Zero == [k |-> "fin", m |-> 0, e |-> 0]
Infinity(s) == IF s < 0 THEN NInf ELSE PInf

\* Round the exact value s * n * 10^e (n >= 0; sticky: a non-zero tail
\* below n was cut off) to Prec digits, ties to even.
Round(s, n, e, sticky) ==
    IF n = 0 THEN Zero
    ELSE LET d == Digits(n) IN
         IF d <= Prec
         THEN [k |-> "fin", m |-> s * n * Pow10(Prec - d), e |-> e - (Prec - d)]
         ELSE LET sh == d - Prec
                  q == n \div Pow10(sh)
                  r == n % Pow10(sh)
                  half == 5 * Pow10(sh - 1)
                  up == r > half \/ (r = half /\ (sticky \/ q % 2 = 1))
                  q2 == IF up THEN q + 1 ELSE q
              IN IF q2 = Pow10(Prec)
                 THEN [k |-> "fin", m |-> s * Pow10(Prec - 1), e |-> e + sh + 1]
                 ELSE [k |-> "fin", m |-> s * q2, e |-> e + sh]

\* A numeric literal m * 10^e of the source text.
Lit(m, e) == Round(Sign(m), Abs(m), e, FALSE)

isNaN(a) == a.k = "nan"
IsFinite(a) == a.k = "fin"
IsZeroNum(a) == a.k = "fin" /\ a.m = 0

Neg(a) == IF a.k = "nan" THEN NaN ELSE [a EXCEPT !.m = -a.m]

Mul(a, b) ==
    IF a.k = "nan" \/ b.k = "nan" THEN NaN
    ELSE IF a.k = "inf" \/ b.k = "inf"
         THEN IF a.m = 0 \/ b.m = 0 THEN NaN ELSE Infinity(Sign(a.m) * Sign(b.m))
         ELSE IF a.m = 0 \/ b.m = 0 THEN Zero
              ELSE Round(Sign(a.m) * Sign(b.m), Abs(a.m) * Abs(b.m), a.e + b.e, FALSE)

Div(a, b) ==
    IF a.k = "nan" \/ b.k = "nan" THEN NaN
    ELSE IF a.k = "inf"
         THEN IF b.k = "inf" THEN NaN ELSE Infinity(Sign(a.m) * Sign(b.m))
         ELSE IF b.k = "inf" THEN Zero
              ELSE IF b.m = 0
                   THEN IF a.m = 0 THEN NaN ELSE Infinity(Sign(a.m))
                   ELSE IF a.m = 0 THEN Zero
                        ELSE LET n == Abs(a.m) * Pow10(Prec + 1) IN
                             Round(Sign(a.m) * Sign(b.m), n \div Abs(b.m),
                                   a.e - b.e - (Prec + 1), n % Abs(b.m) # 0)

Add(a, b) ==
    IF a.k = "nan" \/ b.k = "nan" THEN NaN
    ELSE IF a.k = "inf"
         THEN IF b.k = "inf" /\ b.m # a.m THEN NaN ELSE a
         ELSE IF b.k = "inf" THEN b
              ELSE IF a.m = 0 THEN b
                   ELSE IF b.m = 0 THEN a
                        ELSE LET hi == IF a.e >= b.e THEN a ELSE b
                                 lo == IF a.e >= b.e THEN b ELSE a
                                 diff == hi.e - lo.e
                             IN IF diff > Prec + 1 THEN hi
                                ELSE LET n == hi.m * Pow10(diff) + lo.m
                                     IN Round(Sign(n), Abs(n), lo.e, FALSE)

Sub(a, b) == Add(a, Neg(b))

\* a < b, a <= b, a > b of JavaScript: false whenever an operand is NaN.
Lt(a, b) == /\ a.k # "nan" /\ b.k # "nan" /\ a # b
            /\ Sub(a, b).m < 0
Le(a, b) == /\ a.k # "nan" /\ b.k # "nan"
            /\ (a = b \/ Sub(a, b).m < 0)
Gt(a, b) == Lt(b, a)

\* a || b of JavaScript on numbers: 0 and NaN are falsy.
OrElse(a, b) == IF a.k = "nan" \/ IsZeroNum(a) THEN b ELSE a

MathMax(a, b) == IF a.k = "nan" \/ b.k = "nan" THEN NaN
                 ELSE IF Lt(a, b) THEN b ELSE a
MathMin(a, b) == IF a.k = "nan" \/ b.k = "nan" THEN NaN
                 ELSE IF Lt(b, a) THEN b ELSE a

RECURSIVE ISqrt(_, _, _)
ISqrt(n, lo, hi) ==
    IF hi - lo <= 1 THEN lo
    ELSE LET mid == (lo + hi) \div 2
         IN IF mid * mid <= n THEN ISqrt(n, mid, hi) ELSE ISqrt(n, lo, mid)

MathSqrt(a) ==
    IF a.k = "nan" \/ a.m < 0 THEN NaN
    ELSE IF a.k = "inf" THEN PInf
         ELSE IF a.m = 0 THEN Zero
              ELSE LET kk == IF (a.e - Prec) % 2 = 0 THEN Prec ELSE Prec + 1
                       n == a.m * Pow10(kk)
                       r == ISqrt(n, 0, 31623)
                   IN IF r < Pow10(Prec)
                      THEN Round(1, IF n > r * r + r THEN r + 1 ELSE r,
                                 (a.e - kk) \div 2, FALSE)
                      ELSE Round(1, r, (a.e - kk) \div 2, n # r * r)

\* Fixed-point scale used inside the logarithm and the exponential.
FixScale == 10000
\* ln(2) and ln(10) in units of 1/FixScale.
Ln2Fix == 6931
Ln10Fix == 23026
\* Math.exp overflows to Infinity above 709.78 and underflows to 0 below
\* -745.13 (binary64); in units of 1/FixScale.
ExpOverflowFix == 7097800
ExpUnderflowFix == -7451300

\* |a| * |b| / FixScale with the sign of a * b, without overflowing.
MulFix(a, b) ==
    Sign(a) * Sign(b) *
      ((Abs(a) \div FixScale) * Abs(b) + ((Abs(a) % FixScale) * Abs(b)) \div FixScale)

\* The finite number a in units of 1/FixScale (saturating far beyond the
\* range in which Math.exp is finite).
ToFix(a) ==
    LET sh == a.e + 4 IN
    IF a.m = 0 THEN 0
    ELSE IF sh >= 0
         THEN IF sh + Prec > 9 THEN Sign(a.m) * 2000000000
              ELSE a.m * Pow10(sh)
         ELSE IF -sh > Prec + 1 THEN 0
              ELSE Sign(a.m) * ((Abs(a.m) + 5 * Pow10(-sh - 1)) \div Pow10(-sh))

FromFix(v) == Round(Sign(v), Abs(v), -4, FALSE)

\* ln(y) for y in [1, 2) given in units of 1/FixScale: 2 * atanh((y-1)/(y+1)).
LnSeries(yF) ==
    LET z == ((yF - FixScale) * FixScale) \div (yF + FixScale)
        z2 == (z * z) \div FixScale
        t3 == (z * z2) \div FixScale
        t5 == (t3 * z2) \div FixScale
        t7 == (t5 * z2) \div FixScale
        t9 == (t7 * z2) \div FixScale
    IN 2 * (z + t3 \div 3 + t5 \div 5 + t7 \div 7 + t9 \div 9)

RECURSIVE LnReduce(_)
LnReduce(yF) == IF yF >= 2 * FixScale THEN Ln2Fix + LnReduce(yF \div 2)
                ELSE LnSeries(yF)

\* ln of the mantissa m (m > 0, Prec digits) read as a number in [1, 10).
LnMant(m) == LnReduce((m * FixScale) \div Pow10(Prec - 1))

\* ln(m * 10^e) in units of 1/FixScale (m > 0).
LnFix(a) == LnMant(a.m) + (a.e + Prec - 1) * Ln10Fix

RECURSIVE ExpSeries(_, _, _, _)
ExpSeries(r, term, n, acc) ==
    IF term = 0 \/ n > 24 THEN acc
    ELSE LET t == (term * r) \div (FixScale * n)
         IN ExpSeries(r, t, n + 1, acc + t)

\* e^(v / FixScale) as a number.
ExpFix(v) ==
    IF v > ExpOverflowFix THEN PInf
    ELSE IF v < ExpUnderflowFix THEN Zero
         ELSE LET kk == v \div Ln10Fix
                  r == v - kk * Ln10Fix
              IN Round(1, ExpSeries(r, FixScale, 1, FixScale), kk - 4, FALSE)

MathExp(a) ==
    IF a.k = "nan" THEN NaN
    ELSE IF a.k = "inf" THEN (IF a.m > 0 THEN PInf ELSE Zero)
         ELSE ExpFix(ToFix(a))

MathLog(a) ==
    IF a.k = "nan" \/ a.m < 0 THEN NaN
    ELSE IF a.k = "inf" THEN PInf
         ELSE IF a.m = 0 THEN NInf
              ELSE FromFix(LnFix(a))

MathLog10(a) ==
    IF a.k = "nan" \/ a.m < 0 THEN NaN
    ELSE IF a.k = "inf" THEN PInf
         ELSE IF a.m = 0 THEN NInf
              ELSE FromFix((a.e + Prec - 1) * FixScale
                           + (LnMant(a.m) * FixScale) \div Ln10Fix)

IsTwo(y) == y = Lit(2, 0)

\* Math.pow(a, y) for the exponents of the source: the integer 2 and
\* finite non-integer exponents.
MathPow(a, y) ==
    IF IsTwo(y) THEN Mul(a, a)
    ELSE IF a.k = "nan" THEN NaN
         ELSE IF a.k = "inf" THEN (IF y.m > 0 THEN PInf ELSE Zero)
              ELSE IF a.m = 0 THEN (IF y.m > 0 THEN Zero ELSE PInf)
                   ELSE IF a.m < 0 THEN NaN
                        ELSE ExpFix(MulFix(LnFix(a), ToFix(y)))

-----------------------------------------------------------------------------
(***************************************************************************)
(* Strings are sequences of one-character strings, so that                 *)
(* String.prototype.includes is a real substring search.                   *)
(***************************************************************************)
StrLime == <<"L", "i", "m", "e">>
NameFerric == <<"F", "e", "r", "r", "i", "c", " ", "C", "h", "l", "o", "r",
                "i", "d", "e", " ", "(", "4", "0", "%", ")">>
NameLime == <<"L", "i", "m", "e", " ", "S", "l", "u", "r", "r", "y", " ",
              "(", "V", "a", "r", "i", "a", "b", "l", "e", " ", "%", ")">>

Includes(s, sub) ==
    \E i \in 1..(Len(s) - Len(sub) + 1) : SubSeq(s, i, i + Len(sub) - 1) = sub

\* An optional numeric field that was not supplied.
Undefined == [k |-> "undef", m |-> 0, e |-> 0]

MathPI == Lit(314159265, -8)
g == Lit(981, -2)
waterDensity == Lit(1000, 0)
waterViscosity == Lit(1, -3)
targetMR == Lit(22, -2)
d_inj_default == Lit(25, -3)

\* The line of a division of the source when its divisor is exactly zero.
ZeroDen(line, den) == IF IsZeroNum(den) THEN {line} ELSE {}

\* A stream's share taken of the total in m3/s instead of L/h.
FractionOfM3s(flow, totalInjectionFlowLh) ==
    Div(flow, OrElse(Div(totalInjectionFlowLh, Lit(3600000, 0)), Lit(1, 0)))

\* Lines 20-21: a stream's share of the injected flow.
Fraction(flow, totalInjectionFlowLh) ==
    Div(flow, OrElse(totalInjectionFlowLh, Lit(1, 0)))

\* 1. Dilution & Injection Properties
Blend(in) ==
    LET totalInjectionFlowLh == Add(in.chemicalFlow, in.dilutionWaterFlow)
        totalInjectionFlowM3s == Div(totalInjectionFlowLh, Lit(3600000, 0))
        x_chem == Fraction(in.chemicalFlow, totalInjectionFlowLh)
        x_water == Fraction(in.dilutionWaterFlow, totalInjectionFlowLh)
        injectedDensity == Add(Mul(x_chem, in.chemicalDensity), Mul(x_water, waterDensity))
        injectedViscosity ==
            MathExp(Add(Mul(x_chem, MathLog(OrElse(in.chemicalViscosity, Lit(1, -6)))),
                        Mul(x_water, MathLog(OrElse(waterViscosity, Lit(1, -6))))))
    IN [totalInjectionFlowLh |-> totalInjectionFlowLh,
        totalInjectionFlowM3s |-> totalInjectionFlowM3s,
        x_chem |-> x_chem,
        x_water |-> x_water,
        injectedDensity |-> injectedDensity,
        injectedViscosity |-> injectedViscosity,
        zeroDen |-> ZeroDen(20, OrElse(totalInjectionFlowLh, Lit(1, 0)))
                    \cup ZeroDen(21, OrElse(totalInjectionFlowLh, Lit(1, 0)))]

\* 2. Comprehensive Geometry & Hydraulics
Geometry(in) ==
    LET dimension == in.dimension
        depth == IF in.depth = Undefined THEN Lit(5, -1) ELSE in.depth
        pipe == in.conduitType = "PIPE"
        circular == in.conduitShape = "CIRCULAR"
        area == IF pipe
                THEN IF circular
                     THEN Mul(MathPI, MathPow(Div(dimension, Lit(2, 0)), Lit(2, 0)))
                     ELSE Mul(dimension, OrElse(depth, dimension))
                ELSE Mul(dimension, depth)
        perimeter == IF pipe
                     THEN IF circular
                          THEN Mul(MathPI, dimension)
                          ELSE Mul(Lit(2, 0), Add(dimension, OrElse(depth, dimension)))
                     ELSE Add(dimension, Mul(Lit(2, 0), depth))
        hydraulicDiameter ==
            IF pipe
            THEN IF circular
                 THEN dimension
                 ELSE Div(Mul(Lit(4, 0), area), perimeter)
            ELSE Div(Mul(Lit(4, 0), area), Add(dimension, Mul(Lit(2, 0), depth)))
        Q_m3s == Div(in.flowRate, Lit(3600, 0))
        velocity == Div(Q_m3s, OrElse(area, Lit(1, -6)))
        Re == Div(Mul(Mul(in.density, velocity), hydraulicDiameter),
                  OrElse(in.viscosity, Lit(1, -6)))
    IN [area |-> area,
        perimeter |-> perimeter,
        hydraulicDiameter |-> hydraulicDiameter,
        Q_m3s |-> Q_m3s,
        velocity |-> velocity,
        Re |-> Re,
        zeroDen |-> (IF pipe /\ ~circular THEN ZeroDen(43, perimeter) ELSE {})
                    \cup (IF ~pipe
                          THEN ZeroDen(50, Add(dimension, Mul(Lit(2, 0), depth)))
                          ELSE {})
                    \cup ZeroDen(54, OrElse(area, Lit(1, -6)))
                    \cup ZeroDen(55, OrElse(in.viscosity, Lit(1, -6)))]

\* The classification with the boundary values counted as "Low" and "High".
RegimeInclusive(momentumRatio) ==
    IF Le(momentumRatio, Lit(16, -2)) THEN "Low"
    ELSE IF Le(Lit(24, -2), momentumRatio) THEN "High"
         ELSE "Intermediate"

\* Lines 69-71: the three-way classification of the momentum ratio.
Regime(momentumRatio) ==
    IF Lt(momentumRatio, Lit(16, -2)) THEN "Low"
    ELSE IF Gt(momentumRatio, Lit(24, -2)) THEN "High"
         ELSE "Intermediate"

\* 3. Momentum Ratio
Momentum(in, b, gm) ==
    LET numPoints == IF in.injectionType = "TWIN" THEN Lit(2, 0) ELSE Lit(1, 0)
        flowPerPointM3s == Div(b.totalInjectionFlowM3s, numPoints)
        vd == Mul(gm.velocity, gm.hydraulicDiameter)
        orificeDen == OrElse(Mul(Mul(Mul(MathPI, targetMR), gm.velocity),
                                 gm.hydraulicDiameter), Lit(1, -6))
        densRatio == Div(b.injectedDensity, OrElse(in.density, Lit(1, 0)))
        suggestedOrificeDiameter ==
            Div(Mul(Mul(Lit(4, 0), flowPerPointM3s), MathSqrt(densRatio)), orificeDen)
        injArea == OrElse(Mul(MathPI, MathPow(Div(d_inj_default, Lit(2, 0)), Lit(2, 0))),
                          Lit(1, -9))
        u_inj_actual == Div(flowPerPointM3s, injArea)
        momentumRatio ==
            Mul(MathSqrt(densRatio),
                Div(Mul(u_inj_actual, d_inj_default), OrElse(vd, Lit(1, -6))))
        alpha == Div(Mul(gm.Q_m3s, Lit(3600000, 0)),
                     OrElse(b.totalInjectionFlowLh, Lit(1, 0)))
    IN [flowPerPointM3s |-> flowPerPointM3s,
        suggestedOrificeDiameter |-> suggestedOrificeDiameter,
        u_inj_actual |-> u_inj_actual,
        momentumRatio |-> momentumRatio,
        momentumRegime |-> Regime(momentumRatio),
        alpha |-> alpha,
        zeroDen |-> ZeroDen(60, numPoints)
                    \cup ZeroDen(62, OrElse(in.density, Lit(1, 0)))
                    \cup ZeroDen(63, orificeDen)
                    \cup ZeroDen(66, injArea)
                    \cup ZeroDen(67, OrElse(vd, Lit(1, -6)))
                    \cup ZeroDen(73, OrElse(b.totalInjectionFlowLh, Lit(1, 0)))]

NotesDefault == "Standard BHR quill recommendations apply."
NotesKenics == "Chemineer recommends the quill terminate at 0.5Dh upstream. DH calculated for current geometry."
NotesHEV == "HEV tabs work best when injection is centered relative to the DH axis."
NotesSMV == "Sulzer SMV is high-performance; initial distribution is critical for short conduits."

\* a * b * c * d and a * b * c * d * e, evaluated left to right.
Mul4(a, b, c, d) == Mul(Mul(Mul(a, b), c), d)
Mul5(a, b, c, d, e5) == Mul(Mul4(a, b, c, d), e5)

\* Clamp without the upper limit (Math.min forgotten).
ClampNoUpper(cov) ==
    IF isNaN(cov) THEN Lit(1, 0) ELSE MathMax(Lit(1, -4), cov)

\* Clamp without the isNaN test.
ClampNoNaNTest(cov) == MathMin(Lit(1, 0), MathMax(Lit(1, -4), cov))

\* Line 153: the clamp of the correlation value.
Clamp(cov) ==
    IF isNaN(cov) THEN Lit(1, 0)
    ELSE MathMin(Lit(1, 0), MathMax(Lit(1, -4), cov))

\* The KENICS_KM correlation with the element count's exponent positive.
KenicsSingleRising(Re, alpha, n) ==
    Mul4(Lit(96, -2), MathPow(Re, Lit(-1, -1)),
         MathPow(alpha, Lit(3, -2)), MathPow(n, Lit(19, -1)))

\* Line 86: the KENICS_KM correlation for SINGLE injection.
KenicsSingle(Re, alpha, n) ==
    Mul4(Lit(96, -2), MathPow(Re, Lit(-1, -1)),
         MathPow(alpha, Lit(3, -2)), MathPow(n, Lit(-19, -1)))

\* 4. CoV Correlations: the switch on mixerModel (lines 76-151) and the
\* clamp of its result.
Correlation(in, gm, mo) ==
    LET Re == gm.Re
        alpha == mo.alpha
        n == in.numElements
        Dh == gm.hydraulicDiameter
        channel == in.conduitType = "CHANNEL"
        single == in.injectionType = "SINGLE"
        LD == Div(in.availableLength, Dh)
        colebrookArg == Add(Div(Lit(1, -4), Mul(Lit(37, -1), Dh)),
                            Div(Lit(574, -2), MathPow(Re, Lit(9, -1))))
        colebrookSq == MathPow(MathLog10(colebrookArg), Lit(2, 0))
        FDnone == Div(Lit(25, -2), colebrookSq)
        mrSafe == MathMax(Lit(1, -2), mo.momentumRatio)
        CoVi == MathSqrt(alpha)
        kenics ==
            [cov |-> IF single
                     THEN KenicsSingle(Re, alpha, n)
                     ELSE Mul4(Lit(38, -2), MathPow(Re, Lit(8, -3)),
                               MathPow(alpha, Lit(8, -2)), MathPow(n, Lit(-21, -1))),
             FD |-> Lit(19, -1),
             Lm |-> Mul(Mul(n, Lit(15, -1)), Dh),
             notes |-> NotesKenics,
             zeroDen |-> {}]
        hev ==
            [cov |-> IF channel
                     THEN Mul4(Lit(60, 0), MathPow(LD, Lit(-6, -1)),
                               MathPow(n, Lit(-9, -1)), MathPow(Re, Lit(-4, -1)))
                     ELSE IF Le(LD, Lit(3, 0))
                          THEN Mul4(Lit(315, -1), MathPow(Re, Lit(-2, -1)),
                                    MathPow(alpha, Lit(-15, -2)), MathPow(n, Lit(-17, -1)))
                          ELSE Mul4(Lit(11, -1), MathPow(Re, Lit(-4, -2)),
                                    MathPow(alpha, Lit(2, -2)), MathPow(n, Lit(-19, -1))),
             FD |-> IF channel THEN Lit(45, -2) ELSE Lit(6, -1),
             Lm |-> Mul(n, Dh),
             notes |-> NotesHEV,
             zeroDen |-> {}]
        smv ==
            [cov |-> Mul4(Lit(3, -1), MathPow(Re, Lit(-2, -2)),
                          MathPow(alpha, Lit(-1, -2)), MathPow(n, Lit(-16, -1))),
             FD |-> Lit(101, -1),
             Lm |-> Mul(n, Dh),
             notes |-> NotesSMV,
             zeroDen |-> {}]
        stm ==
            IF channel
            THEN [cov |-> IF in.pitchRatio = "1.125:1"
                          THEN Mul5(Lit(210, -6), MathPow(LD, Lit(-2, -1)),
                                    MathPow(n, Lit(-3, -1)), MathPow(alpha, Lit(-2, -2)),
                                    MathPow(Re, Lit(7, -1)))
                          ELSE IF in.pitchRatio = "1.5:1"
                               THEN Mul5(Lit(29, -2), MathPow(LD, Lit(-7, -2)),
                                         MathPow(n, Lit(-25, -2)), MathPow(alpha, Lit(1, -1)),
                                         MathPow(Re, Lit(-2, -1)))
                               ELSE Mul5(Lit(48, 0), MathPow(LD, Lit(-2, -1)),
                                         MathPow(n, Lit(-2, -1)), MathPow(alpha, Lit(7, -1)),
                                         MathPow(Re, Lit(-11, -1))),
                  FD |-> IF in.pitchRatio = "1.125:1" THEN Lit(3, 0)
                         ELSE IF in.pitchRatio = "1.5:1" THEN Lit(76, -1)
                              ELSE Lit(19, -1),
                  Lm |-> Mul(Mul(n, Lit(5, -1)), Dh),
                  notes |-> NotesDefault,
                  zeroDen |-> {}]
            ELSE [cov |-> IF in.pitchRatio = "1.5:1"
                          THEN Mul4(Lit(29, -2), MathPow(Re, Lit(-2, -1)),
                                    MathPow(alpha, Lit(9, -2)), MathPow(n, Lit(-6, -1)))
                          ELSE Mul4(Lit(28, -2), MathPow(Re, Lit(-4, -2)),
                                    MathPow(alpha, Lit(10, -2)), MathPow(n, Lit(-21, -1))),
                  FD |-> IF in.pitchRatio = "1.5:1" THEN Lit(415, -2) ELSE Lit(23, -1),
                  Lm |-> Mul(Mul(n, Lit(8, -1)), Dh),
                  notes |-> NotesDefault,
                  zeroDen |-> {}]
        none ==
            [cov |-> IF channel
                     THEN Mul(Mul(Lit(183, -4),
                                  MathPow(LD, Div(Lit(-1, 0), Lit(13, -1)))),
                              MathPow(mrSafe, Div(Lit(-221, -2), Lit(13, -1))))
                     ELSE Mul(Mul(Lit(2, 0), CoVi),
                              MathExp(Mul(Mul(Lit(-75, -2), MathSqrt(FDnone)), LD))),
             FD |-> FDnone,
             Lm |-> in.availableLength,
             notes |-> NotesDefault,
             zeroDen |-> ZeroDen(141, Mul(Lit(37, -1), Dh))
                         \cup ZeroDen(141, MathPow(Re, Lit(9, -1)))
                         \cup ZeroDen(141, colebrookSq)]
        branch == CASE in.mixerModel = "KENICS_KM" -> kenics
                    [] in.mixerModel = "HEV" -> hev
                    [] in.mixerModel = "SMV" -> smv
                    [] in.mixerModel = "STM" -> stm
                    [] OTHER -> none
    IN [LD |-> LD,
        rawCoV |-> branch.cov,
        mixerCoV |-> Clamp(branch.cov),
        FD |-> branch.FD,
        Lm |-> branch.Lm,
        manufacturerNotes |-> branch.notes,
        zeroDen |-> ZeroDen(81, Dh) \cup branch.zeroDen]

\* The head loss with the weir treated like every other device.
HeadlossMetersNoWeir(in, gm, c) ==
    Div(Mul(Mul(c.FD, c.Lm), MathPow(gm.velocity, Lit(2, 0))),
        Mul(Mul(Lit(2, 0), g), gm.hydraulicDiameter))

\* The head loss with BAFFLES given the fixed value of the weir.
HeadlossMetersBafflesFixed(in, gm, c) ==
    IF in.mixerModel \in {"WEIR", "BAFFLES"} THEN Lit(15, -2)
    ELSE Div(Mul(Mul(c.FD, c.Lm), MathPow(gm.velocity, Lit(2, 0))),
             Mul(Mul(Lit(2, 0), g), gm.hydraulicDiameter))

\* Line 156: the head loss in metres.
HeadlossMeters(in, gm, c) ==
    IF in.mixerModel = "WEIR" THEN Lit(15, -2)
    ELSE Div(Mul(Mul(c.FD, c.Lm), MathPow(gm.velocity, Lit(2, 0))),
             Mul(Mul(Lit(2, 0), g), gm.hydraulicDiameter))

\* 5. Headloss & G-Value
Headloss(in, gm, c) ==
    LET headDen == Mul(Mul(Lit(2, 0), g), gm.hydraulicDiameter)
        headlossMeters == HeadlossMeters(in, gm, c)
        headlossKpa == Div(Mul(Mul(headlossMeters, in.density), g), Lit(1000, 0))
        powerDissipated == Mul(Mul(headlossKpa, Lit(1000, 0)), gm.Q_m3s)
        volForG == Mul(gm.area, MathMax(c.Lm, gm.hydraulicDiameter))
        gDen == OrElse(Mul(in.viscosity, volForG), Lit(1, -9))
        gValue == MathSqrt(Div(powerDissipated, gDen))
    IN [headlossMeters |-> headlossMeters,
        headlossKpa |-> headlossKpa,
        powerDissipated |-> powerDissipated,
        volForG |-> volForG,
        gValue |-> gValue,
        zeroDen |-> (IF in.mixerModel = "WEIR" THEN {} ELSE ZeroDen(156, headDen))
                    \cup ZeroDen(160, gDen)]

\* 6. Dissolution (Lime)
Dissolution(in, gm, h) ==
    LET T == in.waterTemperature
        limeSaturationLimit ==
            Mul(Add(Sub(Mul(Lit(-4, -5), MathPow(T, Lit(2, 0))), Mul(Lit(125, -4), T)),
                    Lit(183, -2)),
                Lit(1000, 0))
        rateK == Mul(Mul(Lit(3, -1),
                         MathSqrt(Div(MathMax(Lit(1, 0), h.gValue), Lit(100, 0)))),
                     MathMax(Lit(1, -1),
                             Div(Sub(limeSaturationLimit, in.chemicalDose),
                                 limeSaturationLimit)))
        timeTo95 == Div(MathLog(Div(Lit(1, 0), Lit(5, -2))), OrElse(rateK, Lit(1, -3)))
        distanceTo95 == Mul(timeTo95, gm.velocity)
    IN [limeSaturationLimit |-> limeSaturationLimit,
        rateK |-> rateK,
        timeTo95 |-> timeTo95,
        distanceTo95 |-> distanceTo95,
        zeroDen |-> ZeroDen(164, limeSaturationLimit)
                    \cup ZeroDen(165, OrElse(rateK, Lit(1, -3)))]

\* The required distance of a lime chemical taken from blending alone.
FinalDistanceNoMax(in, mixingDistanceNeeded, distanceTo95) == mixingDistanceNeeded

\* The required distance of a lime chemical as the smaller of the two.
FinalDistanceMin(in, mixingDistanceNeeded, distanceTo95) ==
    IF Includes(in.chemicalType, StrLime)
    THEN MathMin(mixingDistanceNeeded, distanceTo95)
    ELSE mixingDistanceNeeded

\* Line 172: the required distance, the larger of the blending and the
\* dissolution distance for a lime chemical.
FinalDistance(in, mixingDistanceNeeded, distanceTo95) ==
    IF Includes(in.chemicalType, StrLime)
    THEN MathMax(mixingDistanceNeeded, distanceTo95)
    ELSE mixingDistanceNeeded

\* 7. Overall Required Distance
Distance(in, gm, c, d) ==
    LET decayRate == IF in.conduitType = "PIPE"
                     THEN Mul(Lit(75, -2), MathSqrt(Lit(2, -2)))
                     ELSE Lit(6, -1)
        meets == Le(c.mixerCoV, in.targetCoV)
        mixingDistanceNeeded ==
            IF meets THEN c.Lm
            ELSE Add(c.Lm,
                     Mul(Div(MathLog(Div(c.mixerCoV, in.targetCoV)),
                             OrElse(decayRate, Lit(1, -1))),
                         gm.hydraulicDiameter))
        finalDistanceNeeded == FinalDistance(in, mixingDistanceNeeded, d.distanceTo95)
        mixingTimeNeeded == Div(finalDistanceNeeded, OrElse(gm.velocity, Lit(1, -6)))
        dissolvedAtTarget ==
            Mul(Sub(Lit(1, 0), MathExp(Mul(Neg(d.rateK), mixingTimeNeeded))), Lit(100, 0))
    IN [decayRate |-> decayRate,
        mixingDistanceNeeded |-> mixingDistanceNeeded,
        finalDistanceNeeded |-> finalDistanceNeeded,
        mixingTimeNeeded |-> mixingTimeNeeded,
        dissolvedAtTarget |-> dissolvedAtTarget,
        zeroDen |-> (IF meets THEN {}
                     ELSE ZeroDen(170, in.targetCoV)
                          \cup ZeroDen(170, OrElse(decayRate, Lit(1, -1))))
                    \cup ZeroDen(173, OrElse(gm.velocity, Lit(1, -6)))]

\* Compliance that never credits a lime chemical with its dissolution.
IsCompliantNoDissolution(in, c, ds) ==
    Le(c.mixerCoV, in.targetCoV) /\ ~Includes(in.chemicalType, StrLime)

\* Compliance that also demands the mixing time target.
IsCompliantWithTime(in, c, ds) ==
    /\ Le(c.mixerCoV, in.targetCoV)
    /\ (~Includes(in.chemicalType, StrLime) \/ Gt(ds.dissolvedAtTarget, Lit(90, 0)))
    /\ Le(ds.mixingTimeNeeded, in.targetMixingTime)

\* Line 187: isCompliant.
IsCompliant(in, c, ds) ==
    /\ Le(c.mixerCoV, in.targetCoV)
    /\ (~Includes(in.chemicalType, StrLime) \/ Gt(ds.dissolvedAtTarget, Lit(90, 0)))

\* Line 188: isTimeCompliant.
IsTimeCompliant(in, ds) == Le(ds.mixingTimeNeeded, in.targetMixingTime)

\* Lines 176-202: the returned CalculationResults.
Return(in, b, gm, mo, c, h, d, ds) ==
    [velocity |-> gm.velocity,
     reynoldsNumber |-> gm.Re,
     momentumRatio |-> mo.momentumRatio,
     momentumRegime |-> mo.momentumRegime,
     naturalMixingCoV |-> Lit(1, 0),
     mixerCoV |-> c.mixerCoV,
     viscosityRatio |-> Div(b.injectedViscosity, OrElse(in.viscosity, Lit(1, -6))),
     injectedViscosity |-> b.injectedViscosity,
     injectedDensity |-> b.injectedDensity,
     totalInjectionFlow |-> b.totalInjectionFlowLh,
     isCompliant |-> IsCompliant(in, c, ds),
     isTimeCompliant |-> IsTimeCompliant(in, ds),
     mixingDistanceNeeded |-> ds.finalDistanceNeeded,
     mixingTimeNeeded |-> ds.mixingTimeNeeded,
     headloss |-> h.headlossKpa,
     headlossMeters |-> h.headlossMeters,
     gValue |-> h.gValue,
     limeSaturationLimit |-> d.limeSaturationLimit,
     dissolvedAtTarget |-> MathMin(Lit(100, 0), ds.dissolvedAtTarget),
     timeTo95Dissolution |-> d.timeTo95,
     distanceTo95Dissolution |-> d.distanceTo95,
     suggestedOrificeDiameter |-> Mul(mo.suggestedOrificeDiameter, Lit(1000, 0)),
     manufacturerNotes |-> c.manufacturerNotes,
     hydraulicDiameter |-> gm.hydraulicDiameter,
     wettedArea |-> gm.area]

\* calculateMixing as a function of its argument.
calculateMixing(in) ==
    LET b == Blend(in)
        gm == Geometry(in)
        mo == Momentum(in, b, gm)
        c == Correlation(in, gm, mo)
        h == Headloss(in, gm, c)
        d == Dissolution(in, gm, h)
        ds == Distance(in, gm, c, d)
    IN Return(in, b, gm, mo, c, h, d, ds)

-----------------------------------------------------------------------------
(***************************************************************************)
(* The evaluation of calculateMixing(inputs) as a state machine: one step  *)
(* per numbered section of the function, then the return.                  *)
(***************************************************************************)
VARIABLES inputs, pc, blend, geom, mom, cov, hl, diss, dist, results, zeroDivs

(***************************************************************************)
(* The remaining state of the App component (App.tsx, lines 75-79) and the *)
(* asynchronous work it has started: the guide extractions of              *)
(* handleFileUpload and the getAIRecommendations calls of the audit        *)
(* button, each in flight until it settles.                                *)
(***************************************************************************)
VARIABLES selectedPresetId, isAnalyzing, isExtracting, guideContent, aiAnalysis,
          extractions, audits

appVars == <<selectedPresetId, isAnalyzing, isExtracting, guideContent, aiAnalysis,
             extractions, audits>>

vars == <<inputs, pc, blend, geom, mom, cov, hl, diss, dist, results, zeroDivs,
          appVars>>

\* The initial values of the component's hooks; nothing is in flight.
AppState ==
    /\ selectedPresetId = "ferric"
    /\ isAnalyzing = FALSE
    /\ isExtracting = FALSE
    /\ guideContent = ""
    /\ aiAnalysis = ""
    /\ extractions = <<>>
    /\ audits = <<>>

\* The value of a local that has not been computed yet.
Unset == [unset |-> TRUE]

MixerModels == {"NONE", "KENICS_KM", "HEV", "SMV", "STM", "BAFFLES", "WEIR"}
InjectionTypes == {"SINGLE", "TWIN"}
PitchRatios == {"1.125:1", "1.5:1", "2.25:1"}

\* The form's initial MixingInputs (App.tsx, useState).
DefaultInputs ==
    [conduitType |-> "PIPE", conduitShape |-> "CIRCULAR", mixerModel |-> "NONE",
     numElements |-> Lit(4, 0), flowRate |-> Lit(1500, 0), dimension |-> Lit(8, -1),
     depth |-> Lit(6, -1), availableLength |-> Lit(10, 0), viscosity |-> Lit(1, -3),
     density |-> Lit(1000, 0), chemicalType |-> NameFerric, chemicalDose |-> Lit(1, 0),
     chemicalFlow |-> Lit(10, 0), chemicalDensity |-> Lit(1450, 0),
     chemicalViscosity |-> Lit(15, -3), dilutionWaterFlow |-> Lit(200, 0),
     targetCoV |-> Lit(5, -2), targetMixingTime |-> Lit(10, 0),
     injectionType |-> "SINGLE", pitchRatio |-> "1.5:1", waterTemperature |-> Lit(15, 0)]

\* Conduit topology and shape; the shape is read for PIPE only.
Conduits == {<<"PIPE", "CIRCULAR">>, <<"PIPE", "RECTANGULAR">>, <<"CHANNEL", "RECTANGULAR">>}
\* Mixer model and pitch ratio; the pitch ratio is read for STM only.
Mixers == {<<mm, "1.5:1">> : mm \in MixerModels} \cup {<<"STM", pr>> : pr \in PitchRatios}
FlowRates == {Lit(-1500, 0), Zero, Lit(1500, 0)}
Dimensions == {Zero, Lit(8, -1)}
InjectionFlows == {<<Zero, Zero>>, <<Lit(10, 0), Lit(200, 0)>>}
ChemicalTypes == {NameFerric, NameLime}
TargetTimes == {Lit(1, 0), Lit(10, 0), Lit(1000, 0)}

InputSet ==
    {[DefaultInputs EXCEPT !.conduitType = cd[1], !.conduitShape = cd[2],
                           !.mixerModel = mx[1], !.pitchRatio = mx[2],
                           !.injectionType = inj, !.flowRate = fr, !.dimension = dm,
                           !.chemicalFlow = fl[1], !.dilutionWaterFlow = fl[2],
                           !.chemicalType = ct] :
        cd \in Conduits, mx \in Mixers, inj \in InjectionTypes, fr \in FlowRates,
        dm \in Dimensions, fl \in InjectionFlows, ct \in ChemicalTypes}

Start(in) ==
    /\ inputs = in
    /\ pc = "blend"
    /\ blend = Unset /\ geom = Unset /\ mom = Unset /\ cov = Unset
    /\ hl = Unset /\ diss = Unset /\ dist = Unset /\ results = Unset
    /\ zeroDivs = {}
    /\ AppState

Init == \E in \in InputSet : Start(in)

BlendStep ==
    /\ pc = "blend"
    /\ blend' = Blend(inputs)
    /\ zeroDivs' = zeroDivs \cup blend'.zeroDen
    /\ pc' = "geometry"
    /\ UNCHANGED <<appVars, inputs, geom, mom, cov, hl, diss, dist, results>>

GeometryStep ==
    /\ pc = "geometry"
    /\ geom' = Geometry(inputs)
    /\ zeroDivs' = zeroDivs \cup geom'.zeroDen
    /\ pc' = "momentum"
    /\ UNCHANGED <<appVars, inputs, blend, mom, cov, hl, diss, dist, results>>

MomentumStep ==
    /\ pc = "momentum"
    /\ mom' = Momentum(inputs, blend, geom)
    /\ zeroDivs' = zeroDivs \cup mom'.zeroDen
    /\ pc' = "correlation"
    /\ UNCHANGED <<appVars, inputs, blend, geom, cov, hl, diss, dist, results>>

CorrelationStep ==
    /\ pc = "correlation"
    /\ cov' = Correlation(inputs, geom, mom)
    /\ zeroDivs' = zeroDivs \cup cov'.zeroDen
    /\ pc' = "headloss"
    /\ UNCHANGED <<appVars, inputs, blend, geom, mom, hl, diss, dist, results>>

HeadlossStep ==
    /\ pc = "headloss"
    /\ hl' = Headloss(inputs, geom, cov)
    /\ zeroDivs' = zeroDivs \cup hl'.zeroDen
    /\ pc' = "dissolution"
    /\ UNCHANGED <<appVars, inputs, blend, geom, mom, cov, diss, dist, results>>

DissolutionStep ==
    /\ pc = "dissolution"
    /\ diss' = Dissolution(inputs, geom, hl)
    /\ zeroDivs' = zeroDivs \cup diss'.zeroDen
    /\ pc' = "distance"
    /\ UNCHANGED <<appVars, inputs, blend, geom, mom, cov, hl, dist, results>>

DistanceStep ==
    /\ pc = "distance"
    /\ dist' = Distance(inputs, geom, cov, diss)
    /\ zeroDivs' = zeroDivs \cup dist'.zeroDen
    /\ pc' = "return"
    /\ UNCHANGED <<appVars, inputs, blend, geom, mom, cov, hl, diss, results>>

ReturnStep ==
    /\ pc = "return"
    /\ results' = Return(inputs, blend, geom, mom, cov, hl, diss, dist)
    /\ zeroDivs' = zeroDivs \cup ZeroDen(183, OrElse(inputs.viscosity, Lit(1, -6)))
    /\ pc' = "done"
    /\ UNCHANGED <<appVars, inputs, blend, geom, mom, cov, hl, diss, dist>>

Next ==
    \/ BlendStep
    \/ GeometryStep
    \/ MomentumStep
    \/ CorrelationStep
    \/ HeadlossStep
    \/ DissolutionStep
    \/ DistanceStep
    \/ ReturnStep

Spec == Init /\ [][Next]_vars

\* Largest chemical flow (in tenths of L/h) and dilution flow (L/h) of the
\* injection-blend sweep.
MaxChemicalFlowTenths == 5
MaxDilutionFlow == 105

\* Evaluations of the form's inputs over a grid of injection flows.
InitBlend ==
    \E a \in 0..MaxChemicalFlowTenths, b \in 0..MaxDilutionFlow :
        Start([DefaultInputs EXCEPT !.chemicalFlow = Lit(a, -1),
                                    !.dilutionWaterFlow = Lit(b, 0)])

SpecBlend == InitBlend /\ [][Next]_vars

\* Largest bulk flow rate (in tenths of m3/h) of the flow-rate sweep.
MaxFlowRateTenths == 430

\* Evaluations of the form's inputs over a sweep of the bulk flow rate.
InitRegime ==
    \E q \in 1..MaxFlowRateTenths, inj \in InjectionTypes :
        Start([DefaultInputs EXCEPT !.flowRate = Lit(q, -1), !.injectionType = inj])

SpecRegime == InitRegime /\ [][Next]_vars

\* Largest conduit dimension (in micrometres) of the small-bore sweep.
MaxDimensionMicrons == 30

\* Evaluations without injection flow over a sweep of small conduit
\* dimensions, for every conduit and mixer model.
InitFriction ==
    \E d \in 1..MaxDimensionMicrons, c \in Conduits, mm \in MixerModels :
        Start([DefaultInputs EXCEPT !.chemicalFlow = Zero,
                                    !.dilutionWaterFlow = Zero,
                                    !.dimension = Lit(d, -6),
                                    !.conduitType = c[1],
                                    !.conduitShape = c[2],
                                    !.mixerModel = mm])

SpecFriction == InitFriction /\ [][Next]_vars

\* Largest element count of the element-count sweep.
MaxElements == 80

ElementCounts == {Lit(n, 0) : n \in 1..MaxElements}

\* Evaluations of the form's inputs with a KENICS_KM mixer over a sweep of
\* the element count.
InitElements ==
    \E n \in ElementCounts, inj \in InjectionTypes :
        Start([DefaultInputs EXCEPT !.mixerModel = "KENICS_KM",
                                    !.numElements = n,
                                    !.injectionType = inj])

SpecElements == InitElements /\ [][Next]_vars

\* Largest conduit dimension (in tenths of a metre) of the section sweep.
MaxDimensionTenths == 10

\* The secondary dimension: not supplied, zero, or the form's 0.6 m.
Depths == {Undefined, Zero, Lit(6, -1)}

\* Evaluations of the form's inputs over the conduit sections.
InitSection ==
    \E d \in 1..MaxDimensionTenths, h \in Depths, c \in Conduits :
        Start([DefaultInputs EXCEPT !.dimension = Lit(d, -1),
                                    !.depth = h,
                                    !.conduitType = c[1],
                                    !.conduitShape = c[2]])

SpecSection == InitSection /\ [][Next]_vars

\* Largest bulk flow rate (in hundreds of m3/h) of the lime sweep.
MaxFlowRateHundreds == 30

TargetCoVs == {Lit(5, -2), Lit(1, 0)}

\* Evaluations of the form's inputs with the lime preset's chemical, over
\* the bulk flow rate, the mixer model and the CoV target.
InitLime ==
    \E q \in 1..MaxFlowRateHundreds, mm \in MixerModels, tc \in TargetCoVs :
        Start([DefaultInputs EXCEPT !.chemicalType = NameLime,
                                    !.flowRate = Lit(q, 2),
                                    !.mixerModel = mm,
                                    !.targetCoV = tc])

SpecLime == InitLime /\ [][Next]_vars

-----------------------------------------------------------------------------
(***************************************************************************)
(* Two invocations of calculateMixing in flight at once, their steps       *)
(* interleaved in any order.  Every variable holds one value per call.     *)
(***************************************************************************)
Calls == {1, 2}

\* All calls keeping their locals in one place (module scope).
FrameShared(c) == 1

\* Lines 5-174: the locals are const and let bindings of the function body,
\* one set per invocation.
Frame(c) == c

PairInputs ==
    {[DefaultInputs EXCEPT !.mixerModel = mm, !.chemicalType = ct] :
        mm \in {"NONE", "KENICS_KM"}, ct \in ChemicalTypes}

InitPair ==
    /\ inputs \in [Calls -> PairInputs]
    /\ pc = [c \in Calls |-> "blend"]
    /\ blend = [c \in Calls |-> Unset] /\ geom = [c \in Calls |-> Unset]
    /\ mom = [c \in Calls |-> Unset] /\ cov = [c \in Calls |-> Unset]
    /\ hl = [c \in Calls |-> Unset] /\ diss = [c \in Calls |-> Unset]
    /\ dist = [c \in Calls |-> Unset] /\ results = [c \in Calls |-> Unset]
    /\ zeroDivs = {}
    /\ AppState

BlendStepOf(c) ==
    /\ pc[c] = "blend"
    /\ blend' = [blend EXCEPT ![Frame(c)] = Blend(inputs[c])]
    /\ zeroDivs' = zeroDivs \cup blend'[Frame(c)].zeroDen
    /\ pc' = [pc EXCEPT ![c] = "geometry"]
    /\ UNCHANGED <<appVars, inputs, geom, mom, cov, hl, diss, dist, results>>

GeometryStepOf(c) ==
    /\ pc[c] = "geometry"
    /\ geom' = [geom EXCEPT ![Frame(c)] = Geometry(inputs[c])]
    /\ zeroDivs' = zeroDivs \cup geom'[Frame(c)].zeroDen
    /\ pc' = [pc EXCEPT ![c] = "momentum"]
    /\ UNCHANGED <<appVars, inputs, blend, mom, cov, hl, diss, dist, results>>

MomentumStepOf(c) ==
    /\ pc[c] = "momentum"
    /\ mom' = [mom EXCEPT ![Frame(c)] =
                   Momentum(inputs[c], blend[Frame(c)], geom[Frame(c)])]
    /\ zeroDivs' = zeroDivs \cup mom'[Frame(c)].zeroDen
    /\ pc' = [pc EXCEPT ![c] = "correlation"]
    /\ UNCHANGED <<appVars, inputs, blend, geom, cov, hl, diss, dist, results>>

CorrelationStepOf(c) ==
    /\ pc[c] = "correlation"
    /\ cov' = [cov EXCEPT ![Frame(c)] =
                   Correlation(inputs[c], geom[Frame(c)], mom[Frame(c)])]
    /\ zeroDivs' = zeroDivs \cup cov'[Frame(c)].zeroDen
    /\ pc' = [pc EXCEPT ![c] = "headloss"]
    /\ UNCHANGED <<appVars, inputs, blend, geom, mom, hl, diss, dist, results>>

HeadlossStepOf(c) ==
    /\ pc[c] = "headloss"
    /\ hl' = [hl EXCEPT ![Frame(c)] =
                  Headloss(inputs[c], geom[Frame(c)], cov[Frame(c)])]
    /\ zeroDivs' = zeroDivs \cup hl'[Frame(c)].zeroDen
    /\ pc' = [pc EXCEPT ![c] = "dissolution"]
    /\ UNCHANGED <<appVars, inputs, blend, geom, mom, cov, diss, dist, results>>

DissolutionStepOf(c) ==
    /\ pc[c] = "dissolution"
    /\ diss' = [diss EXCEPT ![Frame(c)] =
                    Dissolution(inputs[c], geom[Frame(c)], hl[Frame(c)])]
    /\ zeroDivs' = zeroDivs \cup diss'[Frame(c)].zeroDen
    /\ pc' = [pc EXCEPT ![c] = "distance"]
    /\ UNCHANGED <<appVars, inputs, blend, geom, mom, cov, hl, dist, results>>

DistanceStepOf(c) ==
    /\ pc[c] = "distance"
    /\ dist' = [dist EXCEPT ![Frame(c)] =
                    Distance(inputs[c], geom[Frame(c)], cov[Frame(c)], diss[Frame(c)])]
    /\ zeroDivs' = zeroDivs \cup dist'[Frame(c)].zeroDen
    /\ pc' = [pc EXCEPT ![c] = "return"]
    /\ UNCHANGED <<appVars, inputs, blend, geom, mom, cov, hl, diss, results>>

ReturnStepOf(c) ==
    /\ pc[c] = "return"
    /\ results' = [results EXCEPT ![c] =
                       Return(inputs[c], blend[Frame(c)], geom[Frame(c)], mom[Frame(c)],
                              cov[Frame(c)], hl[Frame(c)], diss[Frame(c)], dist[Frame(c)])]
    /\ zeroDivs' = zeroDivs \cup ZeroDen(183, OrElse(inputs[c].viscosity, Lit(1, -6)))
    /\ pc' = [pc EXCEPT ![c] = "done"]
    /\ UNCHANGED <<appVars, inputs, blend, geom, mom, cov, hl, diss, dist>>

NextPair ==
    \E c \in Calls :
        \/ BlendStepOf(c)
        \/ GeometryStepOf(c)
        \/ MomentumStepOf(c)
        \/ CorrelationStepOf(c)
        \/ HeadlossStepOf(c)
        \/ DissolutionStepOf(c)
        \/ DistanceStepOf(c)
        \/ ReturnStepOf(c)

SpecPair == InitPair /\ [][NextPair]_vars

-----------------------------------------------------------------------------
(***************************************************************************)
(* The App component (src/App.tsx).  An event handler runs to completion   *)
(* and is one step.  A handler that sets inputs schedules the effect of    *)
(* lines 82-84, which evaluates calculateMixing(inputs) section by section *)
(* (the steps of Next) and stores the results; React flushes the effect    *)
(* before it takes the next event, so no handler runs until it is done.    *)
(***************************************************************************)

\* Lines 13-30.
CHEMICAL_PRESETS ==
    <<[id |-> "custom", density |-> Lit(1000, 0), viscosity |-> Lit(1, -3),
        name |-> <<"C", "u", "s", "t", "o", "m", " ", "/", " ", "M", "a",
                   "n", "u", "a", "l", " ", "E", "n", "t", "r", "y">>],
       [id |-> "ferric", density |-> Lit(1450, 0), viscosity |-> Lit(15, -3),
        name |-> NameFerric],
       [id |-> "alum", density |-> Lit(1320, 0), viscosity |-> Lit(25, -3),
        name |-> <<"A", "l", "u", "m", " ", "(", "A", "l", "u", "m", "i",
                   "n", "i", "u", "m", " ", "S", "u", "l", "p", "h", "a",
                   "t", "e", ")">>],
       [id |-> "hypo", density |-> Lit(1210, 0), viscosity |-> Lit(3, -3),
        name |-> <<"S", "o", "d", "i", "u", "m", " ", "H", "y", "p", "o",
                   "c", "h", "l", "o", "r", "i", "t", "e", " ", "(", "1",
                   "5", "%", ")">>],
       [id |-> "permanganate", density |-> Lit(1030, 0), viscosity |-> Lit(1, -3),
        name |-> <<"P", "o", "t", "a", "s", "s", "i", "u", "m", " ", "P",
                   "e", "r", "m", "a", "n", "g", "a", "n", "a", "t", "e",
                   " ", "(", "5", "%", ")">>],
       [id |-> "amm_sulphate", density |-> Lit(1230, 0), viscosity |-> Lit(2, -3),
        name |-> <<"A", "m", "m", "o", "n", "i", "u", "m", " ", "S", "u",
                   "l", "p", "h", "a", "t", "e", " ", "(", "4", "0", "%",
                   ")">>],
       [id |-> "chlorine", density |-> Lit(1460, 0), viscosity |-> Lit(3, -4),
        name |-> <<"L", "i", "q", "u", "i", "d", " ", "C", "h", "l", "o",
                   "r", "i", "n", "e">>],
       [id |-> "fluorosilicic", density |-> Lit(1220, 0), viscosity |-> Lit(2, -3),
        name |-> <<"F", "l", "u", "o", "r", "o", "s", "i", "l", "i", "c",
                   "i", "c", " ", "A", "c", "i", "d", " ", "(", "2", "5",
                   "%", ")">>],
       [id |-> "soda_ash", density |-> Lit(1100, 0), viscosity |-> Lit(2, -3),
        name |-> <<"S", "o", "d", "i", "u", "m", " ", "C", "a", "r", "b",
                   "o", "n", "a", "t", "e", " ", "(", "S", "o", "d", "a",
                   " ", "A", "s", "h", " ", "1", "0", "%", ")">>],
       [id |-> "lime", density |-> Lit(1070, 0), viscosity |-> Lit(5, -3),
        name |-> NameLime],
       [id |-> "polydadmac", density |-> Lit(1040, 0), viscosity |-> Lit(1, -1),
        name |-> <<"p", "o", "l", "y", "D", "A", "D", "M", "A", "C">>],
       [id |-> "poly_conc", density |-> Lit(1050, 0), viscosity |-> Lit(8, -1),
        name |-> <<"P", "o", "l", "y", "m", "e", "r", " ", "(", "C", "o",
                   "n", "c", "e", "n", "t", "r", "a", "t", "e", ")">>],
       [id |-> "poly_dilute", density |-> Lit(1000, 0), viscosity |-> Lit(1, -2),
        name |-> <<"D", "i", "l", "u", "t", "e", " ", "P", "o", "l", "y",
                   "m", "e", "r", " ", "(", "0", ".", "1", "%", ")">>],
       [id |-> "peroxide", density |-> Lit(1190, 0), viscosity |-> Lit(12, -4),
        name |-> <<"H", "y", "d", "r", "o", "g", "e", "n", " ", "P", "e",
                   "r", "o", "x", "i", "d", "e", " ", "(", "5", "0", "%",
                   ")">>],
       [id |-> "caustic", density |-> Lit(1530, 0), viscosity |-> Lit(8, -2),
        name |-> <<"C", "a", "u", "s", "t", "i", "c", " ", "S", "o", "d",
                   "a", " ", "(", "5", "0", "%", ")">>],
       [id |-> "acid", density |-> Lit(1840, 0), viscosity |-> Lit(27, -3),
        name |-> <<"S", "u", "l", "p", "h", "u", "r", "i", "c", " ", "A",
                   "c", "i", "d", " ", "(", "9", "8", "%", ")">>]>>

\* Line 115: CHEMICAL_PRESETS.find(p => p.id === presetId); the ids are distinct.
FindPreset(presetId) ==
    CHOOSE p \in {CHEMICAL_PRESETS[i] : i \in DOMAIN CHEMICAL_PRESETS} : p.id = presetId

\* Lines 32-38 and 40-46: the ids of the two mixer lists.
PIPE_MIXERS == <<"NONE", "KENICS_KM", "HEV", "SMV", "STM">>
CHANNEL_MIXERS == <<"NONE", "HEV", "STM", "BAFFLES", "WEIR">>

\* Line 352: the options the mixer select offers.
MixerOptions(conduitType) ==
    LET list == IF conduitType = "PIPE" THEN PIPE_MIXERS ELSE CHANNEL_MIXERS
    IN {list[i] : i \in DOMAIN list}

\* Lines 86-90.
calculateLimeProps(conc) ==
    [density |-> Add(Lit(1000, 0), Mul(Lit(7, 0), conc)),
     viscosity |-> Mul(Lit(1, -3), MathExp(Mul(Lit(18, -2), conc)))]

\* The form's initial inputs, slurryConcentration included (lines 49-72).
AppInputs ==
    [conduitType |-> "PIPE", conduitShape |-> "CIRCULAR", mixerModel |-> "NONE",
     numElements |-> Lit(4, 0), flowRate |-> Lit(1500, 0), dimension |-> Lit(8, -1),
     depth |-> Lit(6, -1), availableLength |-> Lit(10, 0), viscosity |-> Lit(1, -3),
     density |-> Lit(1000, 0), chemicalType |-> NameFerric, chemicalDose |-> Lit(1, 0),
     chemicalFlow |-> Lit(10, 0), chemicalDensity |-> Lit(1450, 0),
     chemicalViscosity |-> Lit(15, -3), dilutionWaterFlow |-> Lit(200, 0),
     targetCoV |-> Lit(5, -2), targetMixingTime |-> Lit(10, 0),
     slurryConcentration |-> Lit(10, 0),
     injectionType |-> "SINGLE", pitchRatio |-> "1.5:1", waterTemperature |-> Lit(15, 0)]

\* A handler that writes the edited field and nothing else.
handleInputChangeNoReset(prev, presetId, field, value) ==
    [prev EXCEPT ![field] = value]

\* Lines 92-111: the inputs after handleInputChange(field, value), given the
\* inputs (prev) and the selectedPresetId of the render that took the event.
handleInputChange(prev, presetId, field, value) ==
    IF field = "conduitType" /\ value # prev.conduitType
    THEN [prev EXCEPT !.conduitType = value,
                      !.mixerModel = "NONE",
                      !.conduitShape = IF value = "PIPE" THEN "CIRCULAR"
                                       ELSE "RECTANGULAR"]
    ELSE IF field = "slurryConcentration" /\ presetId = "lime"
    THEN LET props == calculateLimeProps(value)
         IN [prev EXCEPT !.slurryConcentration = value,
                         !.chemicalDensity = props.density,
                         !.chemicalViscosity = props.viscosity]
    ELSE [prev EXCEPT ![field] = value]

\* Values typed into the Slurry Conc % field.
SlurryConcentrations == {Lit(20, 0)}

\* The component after its first render: the hooks hold their initial
\* values (results is null) and the effect is about to run.
InitApp == Start(AppInputs)

\* Lines 82-84: inputs has been set, so the effect runs again; results keeps
\* its value until the evaluation returns.
EffectScheduled ==
    /\ pc' = "blend"
    /\ blend' = Unset /\ geom' = Unset /\ mom' = Unset /\ cov' = Unset
    /\ hl' = Unset /\ diss' = Unset /\ dist' = Unset
    /\ zeroDivs' = {}
    /\ UNCHANGED results

\* The component is idle: rendered, its effects flushed.
Idle == pc = "done"

\* Line 190.
isLime == selectedPresetId = "lime"

\* An input control calling handleInputChange.
InputChanged(field, value) ==
    /\ Idle
    /\ inputs' = handleInputChange(inputs, selectedPresetId, field, value)
    /\ EffectScheduled
    /\ UNCHANGED appVars

\* Lines 291 and 297: the Pipe and Channel buttons.
ConduitTypeClicked ==
    /\ Idle
    /\ \E value \in {"PIPE", "CHANNEL"} : InputChanged("conduitType", value)

\* Lines 308-320: the shape buttons; Circular is disabled for CHANNEL.
ShapeClicked ==
    /\ Idle
    /\ \E value \in {"CIRCULAR", "RECTANGULAR"} :
        /\ value = "CIRCULAR" => inputs.conduitType # "CHANNEL"
        /\ InputChanged("conduitShape", value)

\* Lines 348-354: the mixer select.
MixerSelected ==
    /\ Idle
    /\ \E value \in MixerOptions(inputs.conduitType) :
            InputChanged("mixerModel", value)

\* Lines 402-409: the feed arrangement select.
InjectionTypeSelected ==
    /\ Idle
    /\ \E value \in InjectionTypes : InputChanged("injectionType", value)

\* Lines 412-424: the Slurry Conc % field, rendered while isLime (line 190).
SlurryConcentrationEdited ==
    /\ Idle
    /\ isLime
    /\ \E value \in SlurryConcentrations : InputChanged("slurryConcentration", value)

\* Lines 113-134, called by the preset select (lines 389-394).  For 'custom'
\* setInputs is not called and no effect runs.
handlePresetChange(presetId) ==
    LET preset == FindPreset(presetId)
        props == calculateLimeProps(OrElse(inputs.slurryConcentration, Lit(10, 0)))
    IN /\ Idle
       /\ selectedPresetId' = presetId
       /\ IF presetId # "custom"
          THEN /\ inputs' =
                    IF presetId = "lime"
                    THEN [inputs EXCEPT !.chemicalType = preset.name,
                                        !.chemicalDensity = props.density,
                                        !.chemicalViscosity = props.viscosity]
                    ELSE [inputs EXCEPT !.chemicalType = preset.name,
                                        !.chemicalDensity = preset.density,
                                        !.chemicalViscosity = preset.viscosity]
               /\ EffectScheduled
          ELSE UNCHANGED <<inputs, pc, blend, geom, mom, cov, hl, diss, dist,
                           results, zeroDivs>>
       /\ UNCHANGED <<isAnalyzing, isExtracting, guideContent, aiAnalysis,
                      extractions, audits>>

\* The options of the preset select that are chosen.
PresetChoices == {"custom", "ferric", "chlorine", "lime"}

PresetSelected ==
    /\ Idle
    /\ \E presetId \in PresetChoices : handlePresetChange(presetId)

\* The conduit and mixer controls of the form.
NextForm ==
    \/ Next
    \/ ConduitTypeClicked
    \/ ShapeClicked
    \/ MixerSelected

SpecForm == InitApp /\ [][NextForm]_vars

\* The chemical controls of the form.
NextChemical ==
    \/ Next
    \/ PresetSelected
    \/ SlurryConcentrationEdited
    \/ InjectionTypeSelected

SpecChemical == InitApp /\ [][NextChemical]_vars

(***************************************************************************)
(* The asynchronous work of the component: the guide upload (lines         *)
(* 136-151) and the audit button (lines 579-592).  A started operation is  *)
(* in flight until its promise settles; the callbacks of different         *)
(* operations run in any order.                                            *)
(***************************************************************************)

\* Files chosen in the upload dialog.
Files == {"guide.pdf", "annex.pdf"}

\* Guide extractions followed at a time.
MaxExtractions == 2

\* The text extractGuideData resolves with (./services/gemini).
extractGuideData(file) ==
    IF file = "guide.pdf" THEN "text of guide.pdf" ELSE "text of annex.pdf"

\* The report getAIRecommendations resolves with (./services/gemini).
getAIRecommendations(in, res, guide) ==
    IF guide = "" THEN "audit without guide"
    ELSE IF guide = "text of guide.pdf" THEN "audit citing guide.pdf"
         ELSE "audit citing annex.pdf"

\* The sequence s without its i-th element.
Without(s, i) == SubSeq(s, 1, i - 1) \o SubSeq(s, i + 1, Len(s))

\* Lines 136-151, called by the file input the upload button opens (lines
\* 206-210; the button is disabled while isExtracting).  With a file chosen,
\* setIsExtracting(true) (line 139), the start of the read (lines 141-142)
\* and the finally block's setIsExtracting(false) (line 149) all run in the
\* handler's one synchronous pass; the read itself is left in flight.
handleFileUpload(file) ==
    /\ extractions' = Append(extractions, [file |-> file, stage |-> "reading"])
    /\ isExtracting' = FALSE
    /\ UNCHANGED <<inputs, pc, blend, geom, mom, cov, hl, diss, dist, results,
                   zeroDivs>>
    /\ UNCHANGED <<selectedPresetId, isAnalyzing, guideContent, aiAnalysis, audits>>

FileChosen ==
    /\ Idle
    /\ ~isExtracting
    /\ Len(extractions) < MaxExtractions
    /\ \E file \in Files : handleFileUpload(file)

\* Lines 143-145: reader.onload runs and calls extractGuideData.
ReaderLoaded ==
    \E i \in DOMAIN extractions :
        /\ extractions[i].stage = "reading"
        /\ extractions' = [extractions EXCEPT ![i].stage = "extracting"]
        /\ UNCHANGED <<inputs, pc, blend, geom, mom, cov, hl, diss, dist, results,
                       zeroDivs>>
        /\ UNCHANGED <<selectedPresetId, isAnalyzing, isExtracting, guideContent,
                       aiAnalysis, audits>>

\* Lines 145-146: the awaited extractGuideData resolves; setGuideContent.
ExtractionResolved ==
    \E i \in DOMAIN extractions :
        /\ extractions[i].stage = "extracting"
        /\ guideContent' = extractGuideData(extractions[i].file)
        /\ extractions' = Without(extractions, i)
        /\ UNCHANGED <<inputs, pc, blend, geom, mom, cov, hl, diss, dist, results,
                       zeroDivs>>
        /\ UNCHANGED <<selectedPresetId, isAnalyzing, isExtracting, aiAnalysis,
                       audits>>

\* Line 145: the awaited extractGuideData rejects; the callback ends there.
ExtractionRejected ==
    \E i \in DOMAIN extractions :
        /\ extractions[i].stage = "extracting"
        /\ extractions' = Without(extractions, i)
        /\ UNCHANGED <<inputs, pc, blend, geom, mom, cov, hl, diss, dist, results,
                       zeroDivs>>
        /\ UNCHANGED <<selectedPresetId, isAnalyzing, isExtracting, guideContent,
                       aiAnalysis, audits>>

\* Lines 580-583 and 588: the audit button (disabled while isAnalyzing) is
\* clicked; with results set, setIsAnalyzing(true) and the call of
\* getAIRecommendations(inputs, results, guideContent), left in flight.
AuditClicked ==
    /\ Idle
    /\ ~isAnalyzing
    /\ results # Unset
    /\ isAnalyzing' = TRUE
    /\ audits' = Append(audits, [inputs |-> inputs, results |-> results,
                                 guideContent |-> guideContent])
    /\ UNCHANGED <<inputs, pc, blend, geom, mom, cov, hl, diss, dist, results,
                   zeroDivs>>
    /\ UNCHANGED <<selectedPresetId, isExtracting, guideContent, aiAnalysis,
                   extractions>>

\* Lines 583-585: the awaited call resolves; setAiAnalysis(res) and
\* setIsAnalyzing(false).
AuditResolved ==
    \E i \in DOMAIN audits :
        /\ aiAnalysis' = getAIRecommendations(audits[i].inputs, audits[i].results,
                                              audits[i].guideContent)
        /\ isAnalyzing' = FALSE
        /\ audits' = Without(audits, i)
        /\ UNCHANGED <<inputs, pc, blend, geom, mom, cov, hl, diss, dist, results,
                       zeroDivs>>
        /\ UNCHANGED <<selectedPresetId, isExtracting, guideContent, extractions>>

\* Line 583: the awaited call rejects; the handler ends with the exception
\* and lines 584-585 do not run.
AuditRejected ==
    \E i \in DOMAIN audits :
        /\ audits' = Without(audits, i)
        /\ UNCHANGED <<inputs, pc, blend, geom, mom, cov, hl, diss, dist, results,
                       zeroDivs>>
        /\ UNCHANGED <<selectedPresetId, isAnalyzing, isExtracting, guideContent,
                       aiAnalysis, extractions>>

NextAsync ==
    \/ Next
    \/ FileChosen
    \/ ReaderLoaded
    \/ ExtractionResolved
    \/ ExtractionRejected
    \/ AuditClicked
    \/ AuditResolved
    \/ AuditRejected

SpecAsync == InitApp /\ [][NextAsync]_vars

-----------------------------------------------------------------------------
Done == pc = "done"

\* C1: for every input and every mixer model the returned mixerCoV lies in
\* the closed interval [0.0001, 1.0].
C1_MixerCoVClamped ==
    Done => /\ Le(Lit(1, -4), results.mixerCoV)
            /\ Le(results.mixerCoV, Lit(1, 0))

\* C1 witness: a finite correlation value above 1.0 was returned as 1.0.
C1_Witness ==
    /\ Done
    /\ IsFinite(cov.rawCoV) /\ Gt(cov.rawCoV, Lit(1, 0))
    /\ results.mixerCoV = Lit(1, 0)

\* C2: a correlation value that is NaN, +Infinity or -Infinity is returned
\* as mixerCoV = 1.0 and as nothing else.
C2_NonFiniteIsWorstCase ==
    Done => (~IsFinite(cov.rawCoV) => results.mixerCoV = Lit(1, 0))

\* C2 witness: the correlation evaluated to +Infinity and 1.0 was returned.
C2_Witness ==
    /\ Done
    /\ cov.rawCoV = PInf
    /\ results.mixerCoV = Lit(1, 0)

\* C3: for all inputs, zero or negative flow rate included, the returned
\* dissolvedAtTarget lies in [0, 100].
C3_DissolvedInRange ==
    Done => /\ Le(Zero, results.dissolvedAtTarget)
            /\ Le(results.dissolvedAtTarget, Lit(100, 0))

\* C4: no division of calculateMixing is ever performed with a divisor that
\* is exactly zero.
C4_NoZeroDenominator == zeroDivs = {}

PositiveFinite(x) == IsFinite(x) /\ x.m > 0

OtherInputsPositive ==
    \A f \in {"flowRate", "dimension", "depth", "availableLength", "viscosity",
              "density", "chemicalDose", "chemicalDensity", "chemicalViscosity",
              "targetCoV", "targetMixingTime", "numElements", "waterTemperature"} :
        PositiveFinite(inputs[f])

NumericResultFields ==
    {"velocity", "reynoldsNumber", "momentumRatio", "naturalMixingCoV", "mixerCoV",
     "viscosityRatio", "injectedViscosity", "injectedDensity", "totalInjectionFlow",
     "mixingDistanceNeeded", "mixingTimeNeeded", "headloss", "headlossMeters",
     "gValue", "limeSaturationLimit", "dissolvedAtTarget", "timeTo95Dissolution",
     "distanceTo95Dissolution", "suggestedOrificeDiameter", "hydraulicDiameter",
     "wettedArea"}

NoInjection == IsZeroNum(inputs.chemicalFlow) /\ IsZeroNum(inputs.dilutionWaterFlow)

\* C5: with chemicalFlow = dilutionWaterFlow = 0 and every other numeric
\* input finite and strictly positive, no numeric field of the result is NaN
\* or infinite.
C5_NoInjectionFlowIsFinite ==
    (Done /\ NoInjection /\ OtherInputsPositive)
        => \A f \in NumericResultFields : IsFinite(results[f])

BlendDone == pc # "blend"

\* C6 as claimed: whenever chemicalFlow + dilutionWaterFlow > 0 the two
\* fractions sum to exactly 1.
C6_FractionsSumExactlyOne ==
    (BlendDone /\ Gt(blend.totalInjectionFlowLh, Zero))
        => Add(blend.x_chem, blend.x_water) = Lit(1, 0)

\* The spacing of the modelled numbers at 1 (Number.EPSILON of binary64).
Epsilon == Lit(1, 1 - Prec)

\* C6 amended: for non-negative flows with a positive finite total the two
\* fractions sum to 1 up to rounding, within one Epsilon of 1.
C6_FractionsSumNearOne ==
    (/\ BlendDone
     /\ Le(Zero, inputs.chemicalFlow) /\ Le(Zero, inputs.dilutionWaterFlow)
     /\ IsFinite(blend.totalInjectionFlowLh)
     /\ Gt(blend.totalInjectionFlowLh, Zero))
        => LET sum == Add(blend.x_chem, blend.x_water)
           IN /\ Le(Sub(Lit(1, 0), Epsilon), sum)
              /\ Le(sum, Add(Lit(1, 0), Epsilon))

\* C6 witness: both streams flow and the fractions were computed.
C6_Witness ==
    /\ BlendDone
    /\ Gt(inputs.chemicalFlow, Zero) /\ Gt(inputs.dilutionWaterFlow, Zero)
    /\ Gt(blend.x_chem, Zero) /\ Gt(blend.x_water, Zero)
    /\ Add(blend.x_chem, blend.x_water) # Lit(1, 0)

IsLime == Includes(inputs.chemicalType, StrLime)

\* C7: isCompliant is true exactly when mixerCoV <= targetCoV and the
\* chemical is not lime or the reported dissolvedAtTarget exceeds 90.
C7_ComplianceRule ==
    Done => (results.isCompliant
               <=> /\ Le(results.mixerCoV, inputs.targetCoV)
                   /\ (~IsLime \/ Gt(results.dissolvedAtTarget, Lit(90, 0))))

\* C7 witness: a lime chemical that meets the CoV target was found
\* compliant on the strength of its dissolution.
C7_Witness ==
    /\ Done /\ IsLime /\ results.isCompliant
    /\ Gt(results.dissolvedAtTarget, Lit(90, 0))

\* A result without its isTimeCompliant field.
WithoutTimeFlag(r) == [f \in (DOMAIN r) \ {"isTimeCompliant"} |-> r[f]]

\* C8: an evaluation that differs only in targetMixingTime returns the same
\* value in every field but isTimeCompliant, and isTimeCompliant is
\* mixingTimeNeeded <= targetMixingTime.
C8_TargetTimeOnlyTimeFlag ==
    Done => /\ \A t \in TargetTimes :
                 WithoutTimeFlag(calculateMixing([inputs EXCEPT !.targetMixingTime = t]))
                   = WithoutTimeFlag(results)
            /\ results.isTimeCompliant
                 <=> Le(results.mixingTimeNeeded, inputs.targetMixingTime)

\* C8 witness: a compliant result whose mixing time misses one of the
\* other time targets.
C8_Witness ==
    /\ Done /\ results.isCompliant /\ results.isTimeCompliant
    /\ \E t \in TargetTimes : Gt(results.mixingTimeNeeded, t)

MomentumDone == pc \notin {"blend", "geometry", "momentum"}

\* C9: momentumRegime is "Low" iff momentumRatio < 0.16, "High" iff
\* momentumRatio > 0.24 and "Intermediate" otherwise; 0.16 and 0.24 are
\* both "Intermediate".
C9_RegimeThresholds ==
    MomentumDone =>
        /\ mom.momentumRegime \in {"Low", "Intermediate", "High"}
        /\ mom.momentumRegime = "Low" <=> Lt(mom.momentumRatio, Lit(16, -2))
        /\ mom.momentumRegime = "High" <=> Gt(mom.momentumRatio, Lit(24, -2))
        /\ (Done => results.momentumRegime = mom.momentumRegime)

\* C9 witness: a momentum ratio of exactly 0.16 was classified.
C9_Witness ==
    /\ Done
    /\ results.momentumRatio = Lit(16, -2)
    /\ results.momentumRegime = "Intermediate"

\* C10: for WEIR headlossMeters is exactly 0.15; for every other model it
\* is FD * Lm * velocity^2 / (2 * g * hydraulicDiameter).
C10_WeirHeadloss ==
    Done => IF inputs.mixerModel = "WEIR"
            THEN results.headlossMeters = Lit(15, -2)
            ELSE results.headlossMeters
                   = Div(Mul(Mul(cov.FD, cov.Lm), MathPow(results.velocity, Lit(2, 0))),
                         Mul(Mul(Lit(2, 0), g), results.hydraulicDiameter))

\* C10 witness: a weir evaluated in still water, where the friction formula
\* gives no head loss at all, reports 0.15.
C10_Witness ==
    /\ Done /\ inputs.mixerModel = "WEIR"
    /\ IsZeroNum(results.velocity)
    /\ results.headlossMeters = Lit(15, -2)

KenicsSingleCase ==
    Done /\ inputs.mixerModel = "KENICS_KM" /\ inputs.injectionType = "SINGLE"

\* The mixerCoV returned for the same inputs with n elements.
CoVWithElements(n) == calculateMixing([inputs EXCEPT !.numElements = n]).mixerCoV

\* The unclamped KENICS_KM correlation value for the same inputs with n
\* elements.
RawWithElements(n) == KenicsSingle(geom.Re, mom.alpha, n)

InClampRange(x) == Le(Lit(1, -4), x) /\ Le(x, Lit(1, 0))

\* C11 as claimed: for KENICS_KM with SINGLE injection every increase of
\* numElements strictly decreases the returned mixerCoV, whatever the
\* correlation value.
C11_StrictlyDecreasing ==
    KenicsSingleCase =>
        \A n2 \in ElementCounts :
            Lt(inputs.numElements, n2) => Lt(CoVWithElements(n2), results.mixerCoV)

\* C11 amended: for KENICS_KM with SINGLE injection an increase of
\* numElements never increases the returned mixerCoV, and strictly decreases
\* it when the correlation value lies within [0.0001, 1.0] for both counts.
C11_DecreasingWithinClamp ==
    KenicsSingleCase =>
        \A n2 \in ElementCounts :
            Lt(inputs.numElements, n2) =>
                /\ Le(CoVWithElements(n2), results.mixerCoV)
                /\ (InClampRange(cov.rawCoV) /\ InClampRange(RawWithElements(n2)))
                       => Lt(CoVWithElements(n2), results.mixerCoV)

\* C11 witness: an evaluation whose correlation value is within the clamp
\* range, while the value for a larger element count is below it and is
\* returned as 0.0001.
C11_Witness ==
    /\ KenicsSingleCase
    /\ InClampRange(cov.rawCoV) /\ Gt(results.mixerCoV, Lit(1, -4))
    /\ \E n2 \in ElementCounts :
           /\ Lt(inputs.numElements, n2)
           /\ Lt(RawWithElements(n2), Lit(1, -4))
           /\ CoVWithElements(n2) = Lit(1, -4)

\* C12: for all inputs, negative dimension, depth or flowRate included, the
\* returned hydraulicDiameter, wettedArea and velocity are each >= 0.
C12_GeometryNonNegative ==
    Done => /\ Le(Zero, results.hydraulicDiameter)
            /\ Le(Zero, results.wettedArea)
            /\ Le(Zero, results.velocity)

\* Every returned result is the function of the call's own argument, and
\* calls with equal arguments returned equal results.
ResultsFollowArguments ==
    /\ \A c \in Calls : pc[c] = "done" => results[c] = calculateMixing(inputs[c])
    /\ \A c, d \in Calls :
           (pc[c] = "done" /\ pc[d] = "done" /\ inputs[c] = inputs[d])
               => results[c] = results[d]

\* C13: calculateMixing never modifies its MixingInputs, uses no state
\* outside its arguments, and evaluations on equal inputs, interleaved in
\* any order, return results equal in every field.
C13_ReferentiallyTransparent ==
    /\ []ResultsFollowArguments
    /\ [][inputs' = inputs]_vars

\* C13 witness: one call has returned while a second call on equal inputs
\* is still between its stages, with stage values of its own.
C13_Witness ==
    /\ pc[1] = "done" /\ pc[2] = "headloss"
    /\ inputs[1] = inputs[2]
    /\ results[1] = calculateMixing(inputs[2])
    /\ cov[2] # Unset /\ hl[2] = Unset

GeometryDone == pc \notin {"blend", "geometry"}

\* C14: for a rectangular PIPE whose secondary dimension is not supplied the
\* height used is the width: area = dimension^2, perimeter = 4 * dimension
\* and hydraulicDiameter = dimension.
C14_UnsetHeightIsWidth ==
    (/\ GeometryDone
     /\ inputs.conduitType = "PIPE" /\ inputs.conduitShape = "RECTANGULAR"
     /\ inputs.depth = Undefined)
        => /\ geom.area = Mul(inputs.dimension, inputs.dimension)
           /\ geom.perimeter = Mul(Lit(4, 0), inputs.dimension)
           /\ geom.hydraulicDiameter = inputs.dimension

StmCombinations == {"CHANNEL", "PIPE"} \X PitchRatios

\* The correlation stage for the same inputs with another conduit topology
\* and pitch ratio.
StmChoice(ct, pr) ==
    LET in == [inputs EXCEPT !.conduitType = ct, !.pitchRatio = pr]
        gm == Geometry(in)
    IN Correlation(in, gm, Momentum(in, Blend(in), gm))

\* C15: for STM each of the six combinations of pitch ratio and conduit
\* topology has an FD constant of its own and, where the correlation yields
\* a number, a correlation value of its own within the topology.
C15_StmCombinationsDistinct ==
    (Done /\ inputs.mixerModel = "STM") =>
        \A cb \in StmCombinations \ {<<inputs.conduitType, inputs.pitchRatio>>} :
            /\ StmChoice(cb[1], cb[2]).FD # cov.FD
            /\ (/\ cb[1] = inputs.conduitType
                /\ IsFinite(cov.rawCoV) /\ ~IsZeroNum(cov.rawCoV))
                   => StmChoice(cb[1], cb[2]).rawCoV # cov.rawCoV

\* C16: with mixerModel = BAFFLES every field of the result is the one
\* returned for mixerModel = NONE and otherwise identical inputs.
C16_BafflesIsNone ==
    (Done /\ inputs.mixerModel = "BAFFLES")
        => results = calculateMixing([inputs EXCEPT !.mixerModel = "NONE"])

\* C16 witness: BAFFLES in a flowing pipe returned the friction head loss,
\* the length and the guidance of the unmixed conduit.
C16_Witness ==
    /\ Done /\ inputs.mixerModel = "BAFFLES"
    /\ Gt(results.velocity, Zero)
    /\ IsFinite(results.headlossMeters) /\ Gt(results.headlossMeters, Zero)
    /\ cov.Lm = inputs.availableLength
    /\ results.manufacturerNotes = NotesDefault

\* The blending distance of C17, from the values the evaluation returned.
BlendingDistance ==
    LET decayRate == IF inputs.conduitType = "PIPE"
                     THEN Mul(Lit(75, -2), MathSqrt(Lit(2, -2)))
                     ELSE Lit(6, -1)
    IN IF Le(results.mixerCoV, inputs.targetCoV)
       THEN cov.Lm
       ELSE Add(cov.Lm,
                Mul(Div(MathLog(Div(results.mixerCoV, inputs.targetCoV)), decayRate),
                    results.hydraulicDiameter))

\* C17: for a non-lime chemical mixingDistanceNeeded is Lm when mixerCoV <=
\* targetCoV and Lm + (ln(mixerCoV/targetCoV)/decayRate) * hydraulicDiameter
\* otherwise; for a lime chemical it is the maximum of that distance and
\* distanceTo95Dissolution, and never smaller than that distance.
C17_MixingDistance ==
    Done => IF IsLime
            THEN /\ results.mixingDistanceNeeded
                      = MathMax(BlendingDistance, results.distanceTo95Dissolution)
                 /\ ~Lt(results.mixingDistanceNeeded, BlendingDistance)
            ELSE results.mixingDistanceNeeded = BlendingDistance

\* C17 witness: a lime chemical that misses the CoV target, whose
\* dissolution distance exceeds the blending distance and is the one
\* returned.
C17_Witness ==
    /\ Done /\ IsLime
    /\ Gt(results.mixerCoV, inputs.targetCoV)
    /\ Gt(BlendingDistance, cov.Lm)
    /\ Gt(results.distanceTo95Dissolution, BlendingDistance)
    /\ results.mixingDistanceNeeded = results.distanceTo95Dissolution

DissolutionDone == pc \in {"distance", "return", "done"}

\* The rate constant at the floors of both factors: 0.3 * sqrt(1/100) * 0.1.
RateFloor == Mul(Mul(Lit(3, -1), MathSqrt(Div(Lit(1, 0), Lit(100, 0)))), Lit(1, -1))

\* C18: for all inputs the dissolution rate constant is at least
\* 0.3 * sqrt(1/100) * 0.1, and timeTo95Dissolution is finite and positive.
C18_RatePositive ==
    DissolutionDone =>
        /\ Le(RateFloor, diss.rateK)
        /\ IsFinite(diss.timeTo95) /\ Gt(diss.timeTo95, Zero)

\* The guidance returned for the given inputs with mixer model mm.
NotesFor(in, mm) == calculateMixing([in EXCEPT !.mixerModel = mm]).manufacturerNotes

\* C19: manufacturerNotes depends on mixerModel alone, and each of the seven
\* mixer models has a text of its own.
C19_NotesPerVariant ==
    Done => /\ results.manufacturerNotes = NotesFor(DefaultInputs, inputs.mixerModel)
            /\ \A mm \in MixerModels \ {inputs.mixerModel} :
                   NotesFor(inputs, mm) # results.manufacturerNotes

\* A lime chemical in a flowing conduit with a finite positive rate constant.
LimeDissolving ==
    /\ Done /\ IsLime
    /\ Gt(results.velocity, Zero)
    /\ IsFinite(diss.rateK) /\ Gt(diss.rateK, Zero)

\* C20 as claimed: for such a chemical mixingTimeNeeded >= timeTo95Dissolution
\* and dissolvedAtTarget >= 95, and isCompliant is mixerCoV <= targetCoV.
C20_DissolutionNeverBinds ==
    LimeDissolving =>
        /\ Le(results.timeTo95Dissolution, results.mixingTimeNeeded)
        /\ Le(Lit(95, 0), results.dissolvedAtTarget)
        /\ results.isCompliant <=> Le(results.mixerCoV, inputs.targetCoV)

\* C20 amended: for such a chemical whose blending distance is a number,
\* mixingTimeNeeded >= timeTo95Dissolution and dissolvedAtTarget >= 95 hold
\* up to rounding (within one and two Epsilon), dissolvedAtTarget exceeds 90,
\* and isCompliant is mixerCoV <= targetCoV.
C20_DissolutionNeverBindsRounded ==
    (LimeDissolving /\ ~isNaN(dist.mixingDistanceNeeded)) =>
        /\ Le(Mul(results.timeTo95Dissolution, Sub(Lit(1, 0), Epsilon)),
              results.mixingTimeNeeded)
        /\ Le(Mul(Lit(95, 0), Sub(Lit(1, 0), Mul(Lit(2, 0), Epsilon))),
              results.dissolvedAtTarget)
        /\ Gt(results.dissolvedAtTarget, Lit(90, 0))
        /\ results.isCompliant <=> Le(results.mixerCoV, inputs.targetCoV)

\* C20 witness: a lime chemical whose dissolution distance is the required
\* distance, which meets the CoV target and is compliant.
C20_Witness ==
    /\ LimeDissolving
    /\ Gt(results.distanceTo95Dissolution, dist.mixingDistanceNeeded)
    /\ results.mixingDistanceNeeded = results.distanceTo95Dissolution
    /\ Le(results.mixerCoV, inputs.targetCoV)
    /\ results.isCompliant

\* C21: in the form, after any sequence of preset selections and input
\* edits, selectedPresetId = 'lime' holds exactly when inputs.chemicalType
\* contains "Lime": the isLime flag of the UI agrees with the lime detection
\* the engine applies to the same inputs (calculations.ts, lines 172, 187).
C21_IsLimeAgreesWithEngine == isLime <=> Includes(inputs.chemicalType, StrLime)

\* C22: in the form, after any sequence of conduit-type clicks, shape clicks
\* and mixer selections, inputs.mixerModel is a member of the mixer list of
\* the current inputs.conduitType, and CHANNEL implies RECTANGULAR.
C22_MixerOfferedForConduit ==
    /\ inputs.mixerModel \in MixerOptions(inputs.conduitType)
    /\ inputs.conduitType = "CHANNEL" => inputs.conduitShape = "RECTANGULAR"

\* The conduit type has been changed to CHANNEL (resetting mixer and shape)
\* and a mixer that only the channel list offers has been selected since.
C22_Witness ==
    /\ inputs.conduitType = "CHANNEL"
    /\ inputs.conduitShape = "RECTANGULAR"
    /\ inputs.mixerModel \in {"BAFFLES", "WEIR"}

\* C23: isExtracting is true for the whole time a guide extraction is
\* pending (from the file being chosen until the reader's onload callback and
\* the awaited extractGuideData have completed), so that no second extraction
\* starts while one is pending.
C23_ExtractingWhilePending ==
    /\ extractions # <<>> => isExtracting
    /\ Len(extractions) <= 1

\* C24: once the getAIRecommendations call of an audit has settled, by
\* resolving or by rejecting, isAnalyzing is false again (it is true only
\* while a call is pending), and no second audit request is started while
\* isAnalyzing is true.
C24_AnalyzingOnlyWhilePending ==
    /\ isAnalyzing => audits # <<>>
    /\ Len(audits) <= 1

=============================================================================
